---- MODULE Spec2Model ----
(***************************************************************************)
(* Model of django_auto_admin_fieldsets/admin.py.                          *)
(*                                                                         *)
(* A fieldsets structure is a sequence of groups (name, options); only the *)
(* "fields" option is modelled.  A group is a record                       *)
(*     [name, kind, fields]                                                *)
(* where kind is the Python container type of options["fields"] ("list" or *)
(* "tuple") and fields is the sequence of its entries.  An entry is a      *)
(* record [kind, items]: kind "str" is a plain name (items = <<name>>),    *)
(* kind "tuple" / "list" is a grouped entry with the member names.         *)
(*                                                                         *)
(* The variable fieldsets is the caller's fieldsets object (for the mixin: *)
(* the admin's fieldsets attribute, which ModelAdmin.get_fieldsets hands   *)
(* out as is).  Each action is one call; pre, args, remaining, location,   *)
(* outcome and result record the call's input, locals and return value.    *)
(***************************************************************************)
EXTENDS Integers, Sequences, FiniteSets

VARIABLES fieldsets, op, pre, args, remaining, location, outcome, result

vars == <<fieldsets, op, pre, args, remaining, location, outcome, result>>

(* Bound of the model: total number of field entries of a fieldsets input. *)
MaxEntries == 3

(***************************************************************************)
(* Data                                                                    *)
(***************************************************************************)

\* remaining_fields_placeholder / placeholder default.
Placeholder == "__remaining__"

Str(n) == [kind |-> "str", items |-> <<n>>]
Tup(s) == [kind |-> "tuple", items |-> s]
Lst(s) == [kind |-> "list", items |-> s]

\* model._meta.fields of the model under administration.
MetaFields ==
    << [name |-> "id",          editable |-> TRUE,  auto_created |-> TRUE],
       [name |-> "title",       editable |-> TRUE,  auto_created |-> FALSE],
       [name |-> "slug",        editable |-> TRUE,  auto_created |-> FALSE],
       [name |-> "description", editable |-> TRUE,  auto_created |-> FALSE],
       [name |-> "created_at",  editable |-> FALSE, auto_created |-> FALSE] >>

\* model._meta.many_to_many.
MetaManyToMany ==
    << [name |-> "tags", editable |-> TRUE, auto_created |-> FALSE] >>

\* The labels of the groups of an input, in order.
GroupNames == <<"Basic", "Extra">>

\* The entries an input's field lists are built from.
EntryPool ==
    { Str("title"), Str(Placeholder),
      Tup(<<"title", "description">>), Lst(<<"slug">>), Tup(<< >>) }

\* The exclude arguments of a call.
ExcludePool == { << >>, <<"title", "tags">> }

\* The get_fields arguments of a call: absent (None), or a callable with the
\* list it returns.
NoGetFields == [given |-> FALSE, returns |-> << >>]
GetFieldsPool ==
    { NoGetFields,
      [given |-> TRUE, returns |-> <<"slug", "description", "created_at">>] }

\* What the admin's get_fields(request, obj) returns, by request.
AdminGetFieldsPool ==
    { [given |-> TRUE,
       returns |-> <<"_order", "title", "slug", "description", "tags">>],
      [given |-> TRUE, returns |-> <<"slug", "description", "created_at">>] }

\* The field_name arguments of remove_fields_from_fieldsets.
FieldNamePool ==
    { [kind |-> "str",   value |-> <<"title">>],
      [kind |-> "str",   value |-> <<"tags">>],
      [kind |-> "list",  value |-> <<"title", "slug">>],
      [kind |-> "other", value |-> << >>] }

\* The exclude attribute of the admin class using the mixin.
AdminExclude == <<"title", "tags">>

Range(s) == { s[i] : i \in 1..Len(s) }

(***************************************************************************)
(* auto_add_fields_to_fieldsets                                            *)
(***************************************************************************)

\* Names that start with an underscore (str.startswith("_")).
StartsWithUnderscore(f) == f \in {"_order", Placeholder}

\* model_fields: _meta.fields extended by _meta.many_to_many, kept when
\* editable and not auto_created, mapped to the name.
ModelFieldNames ==
    LET model_fields == MetaFields \o MetaManyToMany
        kept == SelectSeq(model_fields,
                          LAMBDA field : field.editable /\ ~field.auto_created)
    IN  [i \in 1..Len(kept) |-> kept[i].name]

\* Mutant of ScanEntry: specified_fields.add(field) for a grouped entry, which
\* adds the tuple and none of its members.
ScanEntry_AddsGroupItself(field, g, i, acc) ==
    IF field.kind = "str" /\ field.items[1] = Placeholder
    THEN [acc EXCEPT !.location = <<g, i>>]
    ELSE IF field.kind \in {"list", "tuple"}
    THEN acc
    ELSE [acc EXCEPT !.specified = @ \cup {field.items[1]}]

\* Mutant of ScanEntry: the first placeholder found is kept.
ScanEntry_KeepsFirst(field, g, i, acc) ==
    IF field.kind = "str" /\ field.items[1] = Placeholder
    THEN IF acc.location = << >> THEN [acc EXCEPT !.location = <<g, i>>]
         ELSE acc
    ELSE IF field.kind \in {"list", "tuple"}
    THEN [acc EXCEPT !.specified = @ \cup Range(field.items)]
    ELSE [acc EXCEPT !.specified = @ \cup {field.items[1]}]

\* One step of the inner loop: entry i of group g.  acc holds specified_fields
\* and placeholder_location (<< >> is None, <<g, i>> the group and the index).
ScanEntry(field, g, i, acc) ==
    IF field.kind = "str" /\ field.items[1] = Placeholder
    THEN [acc EXCEPT !.location = <<g, i>>]
    ELSE IF field.kind \in {"list", "tuple"}
    THEN [acc EXCEPT !.specified = @ \cup Range(field.items)]
    ELSE [acc EXCEPT !.specified = @ \cup {field.items[1]}]

RECURSIVE ScanFieldList(_, _, _, _)
ScanFieldList(field_list, g, i, acc) ==
    IF i > Len(field_list) THEN acc
    ELSE ScanFieldList(field_list, g, i + 1, ScanEntry(field_list[i], g, i, acc))

RECURSIVE ScanFieldsets(_, _, _)
ScanFieldsets(fs, g, acc) ==
    IF g > Len(fs) THEN acc
    ELSE ScanFieldsets(fs, g + 1, ScanFieldList(fs[g].fields, g, 1, acc))

\* Mutant of AvailableFields: model_fields without the many-to-many fields.
AvailableFields_WithoutManyToMany(get_fields) ==
    IF get_fields.given THEN get_fields.returns
    ELSE SelectSeq(ModelFieldNames,
                   LAMBDA f : \A k \in 1..Len(MetaManyToMany) :
                                 MetaManyToMany[k].name # f)

\* available_fields: get_fields() when a get_fields is given, else model_fields.
AvailableFields(get_fields) ==
    IF get_fields.given THEN get_fields.returns ELSE ModelFieldNames

\* Mutant of RemainingFields: the names already in the fieldsets are kept.
RemainingFields_IgnoresSpecified(available_fields, specified_fields, exclude) ==
    SelectSeq(available_fields, LAMBDA f : f \notin Range(exclude))

\* remaining_fields.
RemainingFields(available_fields, specified_fields, exclude) ==
    SelectSeq(available_fields,
              LAMBDA f : /\ f \notin specified_fields
                         /\ f \notin Range(exclude)
                         /\ (~StartsWithUnderscore(f)
                               \/ f \in Range(available_fields)))

\* Mutant of InsertRemaining: without a placeholder the remaining fields are
\* appended to the last group.
InsertRemaining_AppendsWhenAbsent(fs, placeholder_location, remaining_fields) ==
    LET g == IF placeholder_location = << >> THEN Len(fs)
             ELSE placeholder_location[1]
        i == IF placeholder_location = << >> THEN Len(fs[g].fields) + 1
             ELSE placeholder_location[2]
        field_list == fs[g].fields
        new_list == SubSeq(field_list, 1, i - 1)
                    \o [k \in 1..Len(remaining_fields) |->
                           Str(remaining_fields[k])]
                    \o SubSeq(field_list, i + 1, Len(field_list))
    IN  [fs EXCEPT ![g] = [name |-> fs[g].name, kind |-> "list",
                           fields |-> new_list]]

\* field_list[placeholder_index : placeholder_index + 1] = remaining_fields;
\* options["fields"] = field_list  (the group's own options dict is updated).
InsertRemaining(fs, placeholder_location, remaining_fields) ==
    IF placeholder_location = << >> THEN fs
    ELSE LET g == placeholder_location[1]
             i == placeholder_location[2]
             field_list == fs[g].fields
             new_list == SubSeq(field_list, 1, i - 1)
                         \o [k \in 1..Len(remaining_fields) |->
                                Str(remaining_fields[k])]
                         \o SubSeq(field_list, i + 1, Len(field_list))
         IN  [fs EXCEPT ![g] = [name |-> fs[g].name, kind |-> "list",
                                fields |-> new_list]]

\* The body of auto_add_fields_to_fieldsets: the locals after the scan and the
\* fieldsets object as the call leaves it (which is also the value returned).
AutoAddFields(fs, exclude, get_fields) ==
    LET scan == ScanFieldsets(fs, 1, [specified |-> {}, location |-> << >>])
        available_fields == AvailableFields(get_fields)
        remaining_fields ==
            RemainingFields(available_fields, scan.specified, exclude)
    IN  [fieldsets |-> InsertRemaining(fs, scan.location, remaining_fields),
         remaining |-> remaining_fields,
         location  |-> scan.location]

\* The keyword parameters of auto_add_fields_to_fieldsets.
Parameters == {"model", "fieldsets", "exclude", "get_fields", "placeholder"}

(***************************************************************************)
(* remove_fields_from_fieldsets                                            *)
(***************************************************************************)

\* fields_to_remove: a str is one name, a list/tuple/set/frozenset its
\* members, anything else a one-element set holding the object itself
\* (which equals no field name).
FieldsToRemove(field_name) ==
    IF field_name.kind = "str" THEN {field_name.value[1]}
    ELSE IF field_name.kind \in {"list", "tuple", "set", "frozenset"}
    THEN Range(field_name.value)
    ELSE {}

\* Mutant of CleanEntry: the members of a grouped entry are not filtered.
CleanEntry_KeepsGroupedMembers(entry, fields_to_remove) ==
    IF entry.kind \in {"list", "tuple"}
    THEN IF Len(entry.items) = 0 THEN << >>
         ELSE IF Len(entry.items) = 1 THEN << Str(entry.items[1]) >>
         ELSE << Tup(entry.items) >>
    ELSE IF entry.items[1] \in fields_to_remove THEN << >>
    ELSE << entry >>

\* Mutant of CleanEntry: a grouped entry left with one member stays a tuple.
CleanEntry_NeverCollapses(entry, fields_to_remove) ==
    IF entry.kind \in {"list", "tuple"}
    THEN LET filtered == SelectSeq(entry.items,
                                   LAMBDA item : item \notin fields_to_remove)
         IN  IF Len(filtered) = 0 THEN << >> ELSE << Tup(filtered) >>
    ELSE IF entry.items[1] \in fields_to_remove THEN << >>
    ELSE << entry >>

\* One entry of a group: the sequence of entries it contributes to fields
\* (empty on continue, else the normalized entry).
CleanEntry(entry, fields_to_remove) ==
    IF entry.kind \in {"list", "tuple"}
    THEN LET filtered == SelectSeq(entry.items,
                                   LAMBDA item : item \notin fields_to_remove)
         IN  IF Len(filtered) = 0 THEN << >>
             ELSE IF Len(filtered) = 1 THEN << Str(filtered[1]) >>
             ELSE << Tup(filtered) >>
    ELSE IF entry.items[1] \in fields_to_remove THEN << >>
    ELSE << entry >>

RECURSIVE CleanFieldList(_, _, _)
CleanFieldList(field_list, i, fields_to_remove) ==
    IF i > Len(field_list) THEN << >>
    ELSE CleanEntry(field_list[i], fields_to_remove)
         \o CleanFieldList(field_list, i + 1, fields_to_remove)

\* cleaned.append((name, {**options, "fields": tuple(fields)})) per group.
CleanGroup(group, fields_to_remove) ==
    [name |-> group.name, kind |-> "tuple",
     fields |-> CleanFieldList(group.fields, 1, fields_to_remove)]

\* Mutant of RemoveFields: a group left without fields is not appended.
RemoveFields_DropsEmptyGroups(fs, field_name) ==
    LET fields_to_remove == FieldsToRemove(field_name)
        cleaned == [g \in 1..Len(fs) |-> CleanGroup(fs[g], fields_to_remove)]
    IN  SelectSeq(cleaned, LAMBDA group : group.fields # << >>)

\* The groups of the result, one per group of the input.
RemoveFields(fs, field_name) ==
    LET fields_to_remove == FieldsToRemove(field_name)
    IN  [g \in 1..Len(fs) |-> CleanGroup(fs[g], fields_to_remove)]

(***************************************************************************)
(* Inputs                                                                  *)
(***************************************************************************)

FieldLists == UNION { [1..k -> EntryPool] : k \in 0..MaxEntries }

\* A group of an input: its fields are written as a list.
Group(n, field_list) == [name |-> GroupNames[n], kind |-> "list",
                         fields |-> field_list]

\* Every fieldsets of two groups: a field list cut in two at any place (a
\* group may have no field).
InputFieldsets ==
    UNION { { << Group(1, SubSeq(s, 1, c)),
                 Group(2, SubSeq(s, c + 1, Len(s))) >> :
              c \in 0..Len(s) } : s \in FieldLists }

ReadonlyPool == { <<"description">> }

NoFieldName == [kind |-> "other", value |-> << >>]

NoArgs == [kwargs |-> {}, exclude |-> << >>, get_fields |-> NoGetFields,
           readonly_fields |-> << >>, field_name |-> NoFieldName]

(***************************************************************************)
(* Actions                                                                 *)
(***************************************************************************)

Init ==
    /\ fieldsets \in InputFieldsets
    /\ op = "init"
    /\ pre = fieldsets
    /\ args = NoArgs
    /\ remaining = << >>
    /\ location = << >>
    /\ outcome = "none"
    /\ result = << >>

\* A call auto_add_fields_to_fieldsets(**kwargs) on the fieldsets object: a
\* keyword that is no parameter raises TypeError before the body runs.
CallAutoAdd(name, kwargs, exclude, get_fields, readonly_fields) ==
    LET r == AutoAddFields(fieldsets, exclude, get_fields)
    IN  /\ op' = name
        /\ pre' = fieldsets
        /\ args' = [NoArgs EXCEPT !.kwargs = kwargs, !.exclude = exclude,
                                  !.get_fields = get_fields,
                                  !.readonly_fields = readonly_fields]
        /\ IF kwargs \subseteq Parameters
           THEN /\ fieldsets' = r.fieldsets
                /\ remaining' = r.remaining
                /\ location' = r.location
                /\ outcome' = "returned"
                /\ result' = r.fieldsets
           ELSE /\ outcome' = "TypeError"
                /\ result' = << >>
                /\ remaining' = << >>
                /\ location' = << >>
                /\ UNCHANGED fieldsets

\* auto_add_fields_to_fieldsets(model=, fieldsets=, exclude=, get_fields=).
AutoAddFieldsToFieldsets ==
    \E exclude \in ExcludePool, get_fields \in GetFieldsPool :
        /\ CallAutoAdd("auto_add",
                       {"model", "fieldsets", "exclude"}
                         \cup (IF get_fields.given THEN {"get_fields"} ELSE {}),
                       exclude, get_fields, << >>)

\* The call of the test suite:
\* auto_add_fields_to_fieldsets(model=, fieldsets=, exclude=, readonly_fields=).
AutoAddWithReadonly ==
    \E exclude \in ExcludePool, readonly_fields \in ReadonlyPool :
        /\ CallAutoAdd("auto_add",
                       {"model", "fieldsets", "exclude", "readonly_fields"},
                       exclude, NoGetFields, readonly_fields)

\* AutoFieldsetsMixin.get_fieldsets(request, obj): the admin's fieldsets, its
\* exclude and its get_fields(request, obj).
GetFieldsets ==
    \E get_fields \in AdminGetFieldsPool :
        /\ CallAutoAdd("get_fieldsets",
                       {"model", "fieldsets", "exclude", "get_fields",
                        "placeholder"},
                       AdminExclude, get_fields, << >>)

\* remove_fields_from_fieldsets(fieldsets, field_name).
RemoveFieldsFromFieldsets ==
    \E field_name \in FieldNamePool :
        /\ op' = "remove"
        /\ pre' = fieldsets
        /\ args' = [NoArgs EXCEPT !.field_name = field_name]
        /\ outcome' = "returned"
        /\ result' = RemoveFields(fieldsets, field_name)
        /\ remaining' = << >>
        /\ location' = << >>
        /\ UNCHANGED fieldsets

Next ==
    \/ AutoAddFieldsToFieldsets
    \/ AutoAddWithReadonly
    \/ GetFieldsets
    \/ RemoveFieldsFromFieldsets

Spec == Init /\ [][Next]_vars

(***************************************************************************)
(* Vocabulary of the properties                                            *)
(***************************************************************************)

\* The last call was an auto_add_fields_to_fieldsets that returned.
Called == op \in {"auto_add", "get_fieldsets"} /\ outcome = "returned"

IsPlaceholderEntry(e) == e.kind = "str" /\ e.items[1] = Placeholder

\* The positions <<group, index>> of the entries of a fieldsets.
Positions(fs) ==
    UNION { { <<g, i>> : i \in 1..Len(fs[g].fields) } : g \in 1..Len(fs) }

EntryAt(fs, p) == fs[p[1]].fields[p[2]]

PlaceholderPositions(fs) ==
    { p \in Positions(fs) : IsPlaceholderEntry(EntryAt(fs, p)) }

HasPlaceholder(fs) == PlaceholderPositions(fs) # {}

\* Group-then-position order.
Before(p, q) == p[1] < q[1] \/ (p[1] = q[1] /\ p[2] < q[2])

FirstOf(S) == CHOOSE p \in S : \A q \in S : p = q \/ Before(p, q)

LastOf(S) == CHOOSE p \in S : \A q \in S : p = q \/ Before(q, p)

\* The names written in a fieldsets: every entry but the placeholder
\* entries, every member of a grouped entry.
ExplicitNames(fs) ==
    UNION { Range(EntryAt(fs, p).items) :
              p \in Positions(fs) \ PlaceholderPositions(fs) }

\* The places <<group, index, member>> where a fieldsets writes a field name.
NameSlots(fs) ==
    UNION { { <<p[1], p[2], k>> : k \in 1..Len(EntryAt(fs, p).items) } :
              p \in Positions(fs) \ PlaceholderPositions(fs) }

NameAt(fs, s) == fs[s[1]].fields[s[2]].items[s[3]]

\* No field name is written twice.
UniqueNames(fs) ==
    \A s, t \in NameSlots(fs) : s # t => NameAt(fs, s) # NameAt(fs, t)

\* The available fields of the last call, from its arguments.
CallAvailable ==
    IF args.get_fields.given THEN args.get_fields.returns ELSE ModelFieldNames

\* The available names, in their order, not named in the input and not in
\* exclude.
ExpectedRemaining ==
    SelectSeq(CallAvailable,
              LAMBDA f : f \notin ExplicitNames(pre)
                         /\ f \notin Range(args.exclude))

\* out is the input (pre) with the entry at position p replaced by the plain
\* names, every other entry and every other group as in the input.
ReplacedAt(out, p, names) ==
    /\ Len(out) = Len(pre)
    /\ \A h \in 1..Len(pre) :
         IF h = p[1]
         THEN /\ out[h].name = pre[h].name
              /\ out[h].fields =
                     SubSeq(pre[h].fields, 1, p[2] - 1)
                     \o [k \in 1..Len(names) |-> Str(names[k])]
                     \o SubSeq(pre[h].fields, p[2] + 1, Len(pre[h].fields))
         ELSE out[h] = pre[h]

(***************************************************************************)
(* Properties of auto_add_fields_to_fieldsets                              *)
(***************************************************************************)

\* C1: with exactly one placeholder entry in the input, the result is the
\* input with that entry replaced, at its own position, by the available
\* names in their order that are not named elsewhere in the fieldsets and not
\* in exclude; every other entry keeps its position.
C1_SinglePlaceholderReplaced ==
    (Called /\ Cardinality(PlaceholderPositions(pre)) = 1)
        => ReplacedAt(result, FirstOf(PlaceholderPositions(pre)),
                      ExpectedRemaining)

\* A placeholder in the middle of a group, a grouped entry whose members are
\* left out, an explicit name that is also excluded (and stays), and an
\* excluded name left out of the inserted ones.
C1_Witness ==
    /\ Called
    /\ Cardinality(PlaceholderPositions(pre)) = 1
    /\ LET p == FirstOf(PlaceholderPositions(pre))
       IN  /\ p[2] > 1
           /\ p[2] < Len(pre[p[1]].fields)
           /\ pre[p[1]].fields[p[2] - 1] = Tup(<<"title", "description">>)
    /\ args.exclude = <<"title", "tags">>
    /\ ~args.get_fields.given
    /\ "title" \in ExplicitNames(result)
    /\ remaining = <<"slug">>

\* C2: a call that passes readonly_fields next to exclude returns a result
\* whose inserted fields hold no readonly and no excluded field.
C2_ReadonlyCallReturns ==
    (op = "auto_add" /\ "readonly_fields" \in args.kwargs)
        => /\ outcome = "returned"
           /\ Range(remaining)
                \cap (Range(args.readonly_fields) \cup Range(args.exclude)) = {}

\* C3 as stated: with more than one placeholder entry, the remaining fields
\* go to the position of the first one and nowhere else.
C3_FirstPlaceholderHonored ==
    (Called /\ Cardinality(PlaceholderPositions(pre)) > 1)
        => ReplacedAt(result, FirstOf(PlaceholderPositions(pre)),
                      ExpectedRemaining)

\* C3 amended: with more than one placeholder entry, the remaining fields go
\* to the position of the last one in group-then-position order and nowhere
\* else; the other placeholder entries stay where they are.
C3_LastPlaceholderHonored ==
    (Called /\ Cardinality(PlaceholderPositions(pre)) > 1)
        => ReplacedAt(result, LastOf(PlaceholderPositions(pre)),
                      ExpectedRemaining)

\* Two placeholders in different groups, fields to insert.
C3_Witness ==
    /\ Called
    /\ Cardinality(PlaceholderPositions(pre)) > 1
    /\ FirstOf(PlaceholderPositions(pre))[1]
         # LastOf(PlaceholderPositions(pre))[1]
    /\ remaining # << >>
    /\ HasPlaceholder(result)

\* C4: without a placeholder entry the call returns the structure unchanged,
\* so a second expansion of an expanded structure without placeholder
\* returns it as it is.
C4_NoPlaceholderUnchanged ==
    (Called /\ ~HasPlaceholder(pre)) => (result = pre /\ fieldsets = pre)

\* The input of the call is the output of an earlier expansion (only an
\* expansion changes the fieldsets object) and there were fields to insert.
C4_Witness ==
    /\ Called
    /\ ~HasPlaceholder(pre)
    /\ pre \notin InputFieldsets
    /\ remaining # << >>
    /\ result = pre

\* C5 as stated: no inserted name is an explicit one, and no field name
\* occurs twice in the expanded fieldsets.
C5_NamesUnique ==
    Called => /\ location # << >>
                   => Range(remaining) \cap ExplicitNames(pre) = {}
              /\ UniqueNames(result)

\* C5 amended: no inserted name is an explicit one, and when no field name
\* occurs twice in the input (and none twice in the available fields), none
\* occurs twice in the expanded fieldsets.
C5_NoNewDuplicates ==
    Called => /\ location # << >>
                   => Range(remaining) \cap ExplicitNames(pre) = {}
              /\ UniqueNames(pre) => UniqueNames(result)

\* Explicit names that are available too, and names inserted next to them.
C5_Witness ==
    /\ Called
    /\ location # << >>
    /\ UniqueNames(pre)
    /\ ExplicitNames(pre) = {"title", "description"}
    /\ remaining = <<"slug", "tags">>
    /\ ExplicitNames(result) = {"title", "description", "slug", "tags"}

\* C6 as stated: for every call, each editable, non-auto-created model field
\* is explicit, inserted or excluded.
C6_AllModelFieldsAccounted ==
    Called => Range(ModelFieldNames)
                \subseteq (ExplicitNames(result) \cup Range(args.exclude))

\* C6 amended: when the fieldsets hold a placeholder and the available fields
\* include every model field (as they do without get_fields), each editable,
\* non-auto-created model field is explicit, inserted or excluded.
C6_AccountedWithPlaceholder ==
    (/\ Called
     /\ HasPlaceholder(pre)
     /\ (args.get_fields.given
           => Range(ModelFieldNames) \subseteq Range(args.get_fields.returns)))
        => Range(ModelFieldNames)
             \subseteq (ExplicitNames(pre) \cup Range(remaining)
                        \cup Range(args.exclude))

\* A model field of each kind: explicit, excluded, inserted.
C6_Witness ==
    /\ Called
    /\ HasPlaceholder(pre)
    /\ ~args.get_fields.given
    /\ "tags" \in Range(args.exclude)
    /\ "slug" \in ExplicitNames(pre)
    /\ "description" \in Range(remaining)
    /\ "description" \in ExplicitNames(result)

\* C10: the call leaves the caller's fieldsets as they were (the placeholder
\* still in them), so the next call on the same object inserts its own
\* remaining fields.
C10_InputUnchanged ==
    Called => fieldsets = pre

(***************************************************************************)
(* Properties of remove_fields_from_fieldsets                              *)
(***************************************************************************)

\* The names N of the last call, from its field_name argument.
CallNames ==
    IF args.field_name.kind = "str" THEN {args.field_name.value[1]}
    ELSE Range(args.field_name.value)

\* field_name is one string or a list/tuple/set of names.
NamesGiven == args.field_name.kind \in {"str", "list", "tuple", "set"}

\* Every name of a fieldsets, the placeholder entries included.
AllNames(fs) == UNION { Range(EntryAt(fs, p).items) : p \in Positions(fs) }

\* The members of an entry that are not in N.
Survivors(e) == SelectSeq(e.items, LAMBDA n : n \notin CallNames)

\* The entries of a field list that keep a member.
Surviving(field_list) ==
    SelectSeq(field_list, LAMBDA e : Survivors(e) # << >>)

\* Group g of the input has fields and loses them all.
AllRemoved(g) == pre[g].fields # << >> /\ Surviving(pre[g].fields) = << >>

\* C7: the result holds no name of N; each group keeps its place and, in
\* their order, its entries that keep a member, each with its surviving
\* members in their order: a plain name when one member is left, a tuple
\* otherwise.
C7_NamesRemoved ==
    (op = "remove" /\ NamesGiven)
        => /\ AllNames(result) \cap CallNames = {}
           /\ Len(result) = Len(pre)
           /\ \A g \in 1..Len(pre) :
                LET kept == Surviving(pre[g].fields)
                    got == result[g].fields
                IN  /\ result[g].name = pre[g].name
                    /\ Len(got) = Len(kept)
                    /\ \A k \in 1..Len(kept) :
                         /\ got[k].items = Survivors(kept[k])
                         /\ got[k].kind =
                              IF Len(got[k].items) = 1 THEN "str" ELSE "tuple"

\* A grouped tuple collapses to its one surviving member, a grouped entry
\* loses its only member and is dropped, a plain name is removed.
C7_Witness ==
    /\ op = "remove"
    /\ args.field_name = [kind |-> "list", value |-> <<"title", "slug">>]
    /\ \E g \in 1..Len(pre) :
         /\ pre[g].fields = << Tup(<<"title", "description">>),
                               Lst(<<"slug">>) >>
         /\ result[g].fields = << Str("description") >>
    /\ \E g \in 1..Len(pre) :
         /\ pre[g].fields = << Str("title") >>
         /\ result[g].fields = << >>

\* C8 as stated: a group whose fields are all removed is not in the result,
\* and the result has as many groups as input groups that keep a field.
C8_EmptyGroupDropped ==
    op = "remove"
        => /\ \A g \in 1..Len(pre) :
                AllRemoved(g)
                  => pre[g].name \notin { result[h].name : h \in 1..Len(result) }
           /\ (\E g \in 1..Len(pre) : AllRemoved(g))
                => Len(result) = Cardinality({ g \in 1..Len(pre) :
                                                 Surviving(pre[g].fields) # << >> })

\* C8 amended: a group whose fields are all removed stays in the result, at
\* its place and under its name, with an empty fields sequence; the result
\* has as many groups as the input.
C8_EmptyGroupKept ==
    op = "remove"
        => /\ Len(result) = Len(pre)
           /\ \A g \in 1..Len(pre) :
                /\ result[g].name = pre[g].name
                /\ AllRemoved(g) => result[g].fields = << >>

\* A group loses all its fields, the other group keeps one.
C8_Witness ==
    /\ op = "remove"
    /\ \E g \in 1..Len(pre) : AllRemoved(g) /\ Len(pre[g].fields) > 1
    /\ \E g \in 1..Len(pre) : Surviving(pre[g].fields) # << >>

\* The entries of a field list as a removal of absent names returns them: the
\* entries with a member, a one-member grouped entry as its plain name, a
\* longer grouped entry as a tuple.
Normalized(field_list) ==
    LET kept == SelectSeq(field_list, LAMBDA e : e.items # << >>)
    IN  [k \in 1..Len(kept) |->
            IF Len(kept[k].items) = 1 THEN Str(kept[k].items[1])
            ELSE Tup(kept[k].items)]

\* C9 as stated: removing again changes nothing, and when no name of N is in
\* the input the returned entries are the input's entries.
C9_AbsentIsNoOp ==
    op = "remove"
        => /\ RemoveFields(result, args.field_name) = result
           /\ AllNames(pre) \cap CallNames = {}
                => \A g \in 1..Len(pre) : result[g].fields = pre[g].fields

\* C9 amended: removing again changes nothing, and when no name of N is in
\* the input the returned entries are the input's entries in their order,
\* except that a grouped entry of one member is returned as that plain name,
\* an empty grouped entry is dropped and a grouped list is returned as a
\* tuple.
C9_IdempotentNormalizing ==
    op = "remove"
        => /\ RemoveFields(result, args.field_name) = result
           /\ AllNames(pre) \cap CallNames = {}
                => /\ Len(result) = Len(pre)
                   /\ \A g \in 1..Len(pre) :
                        result[g].fields = Normalized(pre[g].fields)

\* An absent name is removed from fieldsets with a one-member grouped entry,
\* an empty one and a tuple of two.
C9_Witness ==
    /\ op = "remove"
    /\ args.field_name = [kind |-> "str", value |-> <<"tags">>]
    /\ \E g \in 1..Len(pre) :
         /\ pre[g].fields = << Lst(<<"slug">>), Tup(<< >>),
                               Tup(<<"title", "description">>) >>
         /\ result[g].fields = << Str("slug"),
                                  Tup(<<"title", "description">>) >>

====
